---- MODULE Spec2Model ----
(***************************************************************************)
(* Model of chantools' sweeptimelock command                               *)
(* (cmd/chantools/sweeptimelock.go): the batch sweep sweepTimeLock and     *)
(* the CSV brute force bruteForceDelay.                                    *)
(*                                                                         *)
(* Two specifications share the module:                                    *)
(*   Spec    sweepTimeLock, one action per record / per stage, calling     *)
(*           bruteForceDelay as a function;                                *)
(*   SpecBF  bruteForceDelay alone, one action per loop iteration, with    *)
(*           the loop variable kept at its uint16 width.                   *)
(***************************************************************************)
EXTENDS Integers, Sequences, FiniteSets, TLC

\* ------------------------------------------------------------------ bounds

\* Longest record batch (entries) explored.
MaxEntries == 2

\* Largest "small" CSV delay used for scripts and for maxCsvTimeout.
MaxCsv == 3

\* ------------------------------------------------------- program constants

\* maxCsvTimeout, feeRate and the loop variable i are uint16.
UInt16Max == 65535

\* len(targetScript) != 34
P2WSHScriptLen == 34

\* lnd input/size.go as used by the TxWeightEstimator calls.
InputSize == 41
P2WKHOutputSize == 31
BaseTxSize == 8
WitnessHeaderSize == 2
ToLocalTimeoutWitnessSize == 156
witnessScaleFactor == 4

\* ------------------------------------------------------------ scripts/hash

\* Identities of the (tweaked delay key, revocation key) pair that the key
\* derivation of a record produces.
KeyPairs == {1, 2}

\* input.CommitScriptToSelf(csv, delayPubkey, revocationPubkey): the witness
\* script is determined by, and determines, its three parameters.
CommitScriptToSelf(csv, keys) == [csv |-> csv, keys |-> keys]

\* First 8 bytes of a witness program: OP_0, OP_DATA_32 and the first six
\* bytes of sha256(script).  Six bytes of a hash are not injective: key pair 2
\* stands for a pair under which the scripts for csv 1 and csv 3 share the
\* prefix.
Sha256Prefix(s) ==
    s.keys * (UInt16Max + 1)
        + (IF s.keys = 2 /\ s.csv = 3 THEN 1 ELSE s.csv)

\* input.WitnessScriptHash(s): the 34 byte P2WSH pkScript.  Only the length
\* and the first 8 bytes are read by the search; full keeps the rest apart.
WitnessScriptHash(s) ==
    [len |-> P2WSHScriptLen, prefix |-> Sha256Prefix(s), full |-> s]

\* The nil []byte returned beside an error.
NilScript == [csv |-> 0 - 1, keys |-> 0]

NilHash == [len |-> 0, prefix |-> 0 - 1, full |-> NilScript]

\* A 22 byte P2WPKH pkScript (the remote party's output of a commitment).
P2WPKHScript == [len |-> 22, prefix |-> 0, full |-> NilScript]

\* The pkScript of the to_local output built with delay csv under a key pair.
ScriptFor(keys, csv) == WitnessScriptHash(CommitScriptToSelf(csv, keys))

\* ----------------------------------------------------------------- state

VARIABLES
    \* sweepTimeLock: parameters
    entries, sweepAddr, maxCsvTimeout, publish, feeRate,
    \* sweepTimeLock: locals
    pc, entryIdx, sweepTx, totalOutputValue, signDescs, estimator,
    totalFee, signIdx, buf, err,
    \* sweepTimeLock: effects on the outside (api.PublishTx calls, log lines)
    published, printed,
    \* sweepTimeLock: history (indices of the records that became inputs,
    \* result of the latest bruteForceDelay call)
    resolved, lastBF,
    \* bruteForceDelay: parameters, loop variable, position, result,
    \* number of candidate scripts built and hashed
    keyPair, targetScript, i, bfPc, bfRet, iters

sweepVars == <<entries, sweepAddr, publish, feeRate,
               pc, entryIdx, sweepTx, totalOutputValue, signDescs, estimator,
               totalFee, signIdx, buf, err, published, printed,
               resolved, lastBF>>

bfVars == <<keyPair, targetScript, i, bfPc, bfRet, iters>>

vars == <<sweepVars, bfVars, maxCsvTimeout>>

\* -------------------------------------------------------- bruteForceDelay

BFError(e) ==
    [err |-> e, csv |-> 0, script |-> NilScript, scriptHash |-> NilHash]

NoResult == BFError("none")

\* bytes.Equal(targetScript[0:8], sh[0:8])
PrefixEqual(target, sh) == target.prefix = sh.prefix

\* return int32(i), s, sh, nil
BFMatch(c, keys) ==
    [err |-> "nil", csv |-> c, script |-> CommitScriptToSelf(c, keys),
     scriptHash |-> WitnessScriptHash(CommitScriptToSelf(c, keys))]

\* Faulty variant of NextCandidate: the step skips every other candidate.
NextCandidateSkipping(c) == (c + 2) % (UInt16Max + 1)

\* i++ on a uint16
NextCandidate(c) == (c + 1) % (UInt16Max + 1)

\* Saturating count of loop bodies run (history only).
CountIter(n) == IF n > UInt16Max + 1 THEN n ELSE n + 1

\* if len(targetScript) != 34 { return ... }
BFCheckLength ==
    /\ bfPc = "start"
    /\ IF targetScript.len # P2WSHScriptLen
         THEN /\ bfPc' = "done"
              /\ bfRet' = BFError("InvalidScriptLength")
         ELSE /\ bfPc' = "loop"
              /\ bfRet' = bfRet
    /\ i' = 0
    /\ UNCHANGED <<keyPair, targetScript, iters, maxCsvTimeout, sweepVars>>

\* One run of the loop body: i <= maxCsvTimeout held, the candidate script is
\* built, hashed and compared; on a mismatch i++.
BFIterate ==
    /\ bfPc = "loop"
    /\ i <= maxCsvTimeout
    /\ iters' = CountIter(iters)
    /\ IF PrefixEqual(targetScript,
                      WitnessScriptHash(CommitScriptToSelf(i, keyPair)))
         THEN /\ bfPc' = "done"
              /\ bfRet' = BFMatch(i, keyPair)
              /\ i' = i
         ELSE /\ bfPc' = "loop"
              /\ bfRet' = bfRet
              /\ i' = NextCandidate(i)
    /\ UNCHANGED <<keyPair, targetScript, maxCsvTimeout, sweepVars>>

\* The loop condition fails: return ... "csv timeout not found".
BFExhausted ==
    /\ bfPc = "loop"
    /\ i > maxCsvTimeout
    /\ bfPc' = "done"
    /\ bfRet' = BFError("NotFound")
    /\ UNCHANGED <<keyPair, targetScript, i, iters, maxCsvTimeout, sweepVars>>

\* The same search as a function, for the callers of bruteForceDelay:
\* candidates c, c+1, ... up to max, n loop bodies run so far.
RECURSIVE BFSearch(_, _, _, _, _)
BFSearch(keys, target, max, c, n) ==
    IF c > max
      THEN [ret |-> BFError("NotFound"), iters |-> n]
      ELSE IF PrefixEqual(target,
                          WitnessScriptHash(CommitScriptToSelf(c, keys)))
             THEN [ret |-> BFMatch(c, keys), iters |-> n + 1]
             ELSE BFSearch(keys, target, max, NextCandidate(c), n + 1)

\* Faulty variant of bruteForceDelay: the length check is missing.
bruteForceDelayUnchecked(keys, target, max) ==
    BFSearch(keys, target, max, 0, 0)

bruteForceDelay(keys, target, max) ==
    IF target.len # P2WSHScriptLen
      THEN [ret |-> BFError("InvalidScriptLength"), iters |-> 0]
      ELSE BFSearch(keys, target, max, 0, 0)

\* ---------------------------------------------------------- the records

Out(value, script) == [Value |-> value, Script |-> script, hexOk |-> TRUE]

BadHexOut(value) == [Value |-> value, Script |-> P2WPKHScript, hexOk |-> FALSE]

\* A dataformat.SummaryEntry as far as sweepTimeLock reads it.  ClosingTX is
\* "nil", "unspent" or "allspent"; the four ...Ok fields say whether
\* pubKeyFromHex(CommitPoint), pubKeyFromHex(RevocationBasePoint.PubKey),
\* signer.FetchPrivKey(delayDesc) and chainhash.NewHashFromStr(TXID) succeed;
\* keys is the key pair the two derivations yield.
Entry(id, lb, outs) ==
    [ChannelPoint |-> id, ForceClose |-> TRUE, ClosingTX |-> "unspent",
     LocalBalance |-> lb, Outs |-> outs, TXID |-> id, keys |-> 1,
     commitPointOk |-> TRUE, revBaseOk |-> TRUE, privKeyOk |-> TRUE,
     txidOk |-> TRUE]

GoodEntry(id) == Entry(id, 1000, <<Out(1000, ScriptFor(1, 2))>>)

Records ==
    { GoodEntry(1),
      \* single output, value differs from the recorded balance
      Entry(2, 1000, <<Out(900, ScriptFor(1, 1))>>),
      \* two outputs, the second is ours
      Entry(3, 1000, <<Out(500, P2WPKHScript), Out(1000, ScriptFor(1, 0))>>),
      \* two outputs, none has the recorded balance
      Entry(4, 1000, <<Out(500, P2WPKHScript), Out(700, ScriptFor(1, 1))>>),
      \* two outputs of the recorded balance, the remote one last
      Entry(5, 1000, <<Out(1000, ScriptFor(1, 1)), Out(1000, P2WPKHScript)>>),
      \* nothing to sweep
      [GoodEntry(6) EXCEPT !.ForceClose = FALSE],
      [GoodEntry(7) EXCEPT !.ClosingTX = "allspent"],
      Entry(8, 0, <<Out(1000, ScriptFor(1, 1))>>),
      \* malformed fields
      [GoodEntry(9) EXCEPT !.commitPointOk = FALSE],
      [GoodEntry(10) EXCEPT !.revBaseOk = FALSE],
      [GoodEntry(11) EXCEPT !.privKeyOk = FALSE],
      Entry(12, 1000, <<BadHexOut(1000)>>),
      [GoodEntry(13) EXCEPT !.txidOk = FALSE],
      \* delay above every limit explored
      Entry(14, 1000, <<Out(1000, ScriptFor(1, MaxCsv + 1))>>),
      \* key pair with a prefix collision, real delay 3
      [Entry(15, 2000, <<Out(2000, ScriptFor(2, 3))>>) EXCEPT !.keys = 2],
      \* less value than the fee
      Entry(16, 100, <<Out(100, ScriptFor(1, 1))>>),
      \* no outputs at all
      Entry(17, 1000, << >>),
      \* single output that is no P2WSH script
      Entry(18, 1000, <<Out(1000, P2WPKHScript)>>) }

RECURSIVE SeqsUpTo(_, _)
SeqsUpTo(S, n) ==
    IF n = 0 THEN { << >> }
    ELSE LET shorter == SeqsUpTo(S, n - 1)
         IN shorter \cup { Append(q, x) : q \in shorter, x \in S }

\* ------------------------------------------------- weight and fee (lnd)

\* wire.VarIntSerializeSize
VarIntSerializeSize(n) == IF n < 253 THEN 1 ELSE 3

EmptyEstimator ==
    [hasWitness |-> FALSE, inputCount |-> 0, outputCount |-> 0,
     inputSize |-> 0, inputWitnessSize |-> 0, outputSize |-> 0]

\* estimator.AddWitnessInput(input.ToLocalTimeoutWitnessSize)
AddWitnessInput(e, witnessSize) ==
    [e EXCEPT !.inputSize = @ + InputSize,
              !.inputWitnessSize = @ + witnessSize,
              !.inputCount = @ + 1,
              !.hasWitness = TRUE]

\* estimator.AddP2WKHOutput()
AddP2WKHOutput(e) ==
    [e EXCEPT !.outputSize = @ + P2WKHOutputSize, !.outputCount = @ + 1]

\* estimator.Weight()
Weight(e) ==
    LET txSizeStripped ==
            BaseTxSize + VarIntSerializeSize(e.inputCount) + e.inputSize
                + VarIntSerializeSize(e.outputCount) + e.outputSize
    IN  txSizeStripped * witnessScaleFactor
            + (IF e.hasWitness THEN WitnessHeaderSize + e.inputWitnessSize
                               ELSE 0)

\* 1000 * feeRate: the constant takes feeRate's type, a uint16 product.
SatPerKVByte(rate) == (1000 * rate) % (UInt16Max + 1)

\* chainfee.SatPerKVByte(...).FeePerKWeight()
FeePerKWeight(satPerKVByte) == satPerKVByte \div witnessScaleFactor

\* feeRateKWeight.FeeForWeight(weight), rounded down
FeeForWeight(feeRateKWeight, weight) == (feeRateKWeight * weight) \div 1000

TotalFee(rate, weight) ==
    FeeForWeight(FeePerKWeight(SatPerKVByte(rate)), weight)

\* ----------------------------------------------------------- sweepTimeLock

\* Skip entries that can't be swept.
CannotSweep(entry) ==
    \/ ~entry.ForceClose
    \/ entry.ClosingTX = "allspent"
    \/ entry.LocalBalance = 0

\* for idx, out := range fc.Outs { if out.Value == LocalBalance { txindex = idx } }
\* idx is the 1-based position, txindex the 0-based result so far.
RECURSIVE FindByValue(_, _, _, _)
FindByValue(outs, balance, idx, txindex) ==
    IF idx > Len(outs) THEN txindex
    ELSE FindByValue(outs, balance, idx + 1,
                     IF outs[idx].Value = balance THEN idx - 1 ELSE txindex)

\* Faulty variant of FindSweepOutput: a single output must have the recorded
\* balance too.
FindSweepOutputByValueOnly(entry) ==
    FindByValue(entry.Outs, entry.LocalBalance, 1, 0 - 1)

\* Find index of sweepable output of commitment TX (-1: none).
FindSweepOutput(entry) ==
    IF Len(entry.Outs) = 1 THEN 0
    ELSE FindByValue(entry.Outs, entry.LocalBalance, 1, 0 - 1)

\* input.LockTimeToSequence(false, uint32(csvTimeout)): block based locks
\* are the delay itself.
LockTimeToSequence(csvTimeout) == csvTimeout

NoWitness == [signedBy |-> 0, InputIndex |-> 0 - 1, WitnessScript |-> NilScript]

TxIn(entry, txindex, bf) ==
    [Hash |-> entry.TXID, Index |-> txindex,
     Sequence |-> LockTimeToSequence(bf.csv), Witness |-> NoWitness]

SignDescriptor(entry, txindex, bf) ==
    [KeyDesc |-> entry.ChannelPoint, SingleTweak |-> entry.ChannelPoint,
     WitnessScript |-> bf.script,
     Output |-> [PkScript |-> bf.scriptHash,
                 Value |-> entry.Outs[txindex + 1].Value],
     HashType |-> "SigHashAll"]

\* return fmt.Errorf(...) out of sweepTimeLock
Abort(e) ==
    /\ pc' = "done"
    /\ err' = e

\* continue
SkipEntry ==
    /\ entryIdx' = entryIdx + 1
    /\ UNCHANGED <<pc, err, sweepTx, signDescs, totalOutputValue, estimator,
                   resolved>>

\* Faulty variant of AppendInput: the sign descriptor is put in front of the
\* list instead of behind it.
AppendInputDescriptorFirst(entry, txindex, bf) ==
    /\ sweepTx' = [sweepTx EXCEPT
                      !.TxIn = Append(@, TxIn(entry, txindex, bf))]
    /\ signDescs' = <<SignDescriptor(entry, txindex, bf)>> \o signDescs
    /\ totalOutputValue' = totalOutputValue + entry.Outs[txindex + 1].Value
    /\ estimator' = AddWitnessInput(estimator, ToLocalTimeoutWitnessSize)
    /\ resolved' = Append(resolved, entryIdx)
    /\ entryIdx' = entryIdx + 1
    /\ UNCHANGED <<pc, err>>

\* The tail of the loop body: the record becomes an input.
AppendInput(entry, txindex, bf) ==
    /\ sweepTx' = [sweepTx EXCEPT
                      !.TxIn = Append(@, TxIn(entry, txindex, bf))]
    /\ signDescs' = Append(signDescs, SignDescriptor(entry, txindex, bf))
    /\ totalOutputValue' = totalOutputValue + entry.Outs[txindex + 1].Value
    /\ estimator' = AddWitnessInput(estimator, ToLocalTimeoutWitnessSize)
    /\ resolved' = Append(resolved, entryIdx)
    /\ entryIdx' = entryIdx + 1
    /\ UNCHANGED <<pc, err>>

\* The part of the loop body from bruteForceDelay on.
SearchAndAppend(entry, txindex) ==
    LET bf == bruteForceDelay(entry.keys, entry.Outs[txindex + 1].Script,
                              maxCsvTimeout)
    IN  /\ lastBF' = [entry |-> entryIdx, ret |-> bf.ret, iters |-> bf.iters]
        /\ IF bf.ret.err # "nil"
             THEN SkipEntry
           ELSE IF ~entry.txidOk
             THEN /\ Abort("ErrParseTxHash")
                  /\ UNCHANGED <<entryIdx, sweepTx, signDescs,
                                 totalOutputValue, estimator, resolved>>
           ELSE AppendInput(entry, txindex, bf.ret)

\* Prepare sweep script parameters: the first of the four parses that fails.
ParseError(entry, txindex) ==
    IF ~entry.commitPointOk THEN "ErrParseCommitPoint"
    ELSE IF ~entry.revBaseOk THEN "ErrParseRevocationBasePoint"
    ELSE IF ~entry.privKeyOk THEN "ErrFetchPrivKey"
    ELSE IF ~entry.Outs[txindex + 1].hexOk THEN "ErrParseTargetScript"
    ELSE "nil"

\* One run of the body of: for _, entry := range entries.
ProcessEntry ==
    /\ pc = "entries"
    /\ entryIdx <= Len(entries)
    /\ LET entry == entries[entryIdx]
           txindex == FindSweepOutput(entry)
       IN  IF CannotSweep(entry) \/ txindex = 0 - 1
             THEN SkipEntry /\ UNCHANGED lastBF
           ELSE IF ParseError(entry, txindex) # "nil"
             THEN /\ Abort(ParseError(entry, txindex))
                  /\ UNCHANGED <<entryIdx, sweepTx, signDescs,
                                 totalOutputValue, estimator, resolved,
                                 lastBF>>
           ELSE SearchAndAppend(entry, txindex)
    /\ UNCHANGED <<entries, sweepAddr, publish, feeRate, totalFee, signIdx,
                   buf, published, printed, maxCsvTimeout, bfVars>>

\* After the loop: the destination output, the fee and the output value.
AddSweepOutput ==
    /\ pc = "entries"
    /\ entryIdx > Len(entries)
    /\ IF sweepAddr # "valid"
         THEN /\ Abort("ErrSweepAddr")
              /\ UNCHANGED <<estimator, totalFee, sweepTx, signIdx>>
         ELSE /\ estimator' = AddP2WKHOutput(estimator)
              /\ totalFee' = TotalFee(feeRate, Weight(estimator'))
              /\ sweepTx' = [sweepTx EXCEPT !.TxOut =
                                <<[Value |-> totalOutputValue - totalFee',
                                   PkScript |-> sweepAddr]>>]
              /\ signIdx' = 1
              /\ pc' = "sign"
              /\ err' = err
    /\ UNCHANGED <<entries, sweepAddr, publish, feeRate, entryIdx,
                   totalOutputValue, signDescs, buf, published, printed,
                   resolved, lastBF, maxCsvTimeout, bfVars>>

\* input.CommitSpendTimeout(signer, desc, sweepTx) on success
CommitSpendTimeout(desc, idx) ==
    [signedBy |-> desc.KeyDesc, InputIndex |-> idx,
     WitnessScript |-> desc.WitnessScript]

\* Faulty variant of SignInput: a signing failure is passed over and the
\* loop goes on with the next input.
SignInputIgnoringFailure ==
    /\ pc = "sign"
    /\ signIdx <= Len(signDescs)
    /\ \E signed \in BOOLEAN :
         /\ sweepTx' = IF signed
                         THEN [sweepTx EXCEPT !.TxIn[signIdx].Witness =
                                 CommitSpendTimeout(signDescs[signIdx],
                                                    signIdx - 1)]
                         ELSE sweepTx
         /\ signIdx' = signIdx + 1
         /\ UNCHANGED <<pc, err>>
    /\ UNCHANGED <<entries, sweepAddr, publish, feeRate, entryIdx,
                   totalOutputValue, signDescs, estimator, totalFee, buf,
                   published, printed, resolved, lastBF, maxCsvTimeout,
                   bfVars>>

\* One run of the body of: for idx, desc := range signDescs.  Whether the
\* signer succeeds is the signer's choice.
SignInput ==
    /\ pc = "sign"
    /\ signIdx <= Len(signDescs)
    /\ \E signed \in BOOLEAN :
         IF signed
           THEN /\ sweepTx' = [sweepTx EXCEPT !.TxIn[signIdx].Witness =
                        CommitSpendTimeout(signDescs[signIdx], signIdx - 1)]
                /\ signIdx' = signIdx + 1
                /\ UNCHANGED <<pc, err>>
           ELSE /\ Abort("ErrSign")
                /\ UNCHANGED <<sweepTx, signIdx>>
    /\ UNCHANGED <<entries, sweepAddr, publish, feeRate, entryIdx,
                   totalOutputValue, signDescs, estimator, totalFee, buf,
                   published, printed, resolved, lastBF, maxCsvTimeout,
                   bfVars>>

\* sweepTx.Serialize(&buf); the bytes are the transaction.
Serialize ==
    /\ pc = "sign"
    /\ signIdx > Len(signDescs)
    /\ \E written \in BOOLEAN :
         IF written
           THEN /\ buf' = <<sweepTx>>
                /\ pc' = IF publish THEN "publish" ELSE "log"
                /\ err' = err
           ELSE /\ Abort("ErrSerialize")
                /\ buf' = buf
    /\ UNCHANGED <<entries, sweepAddr, publish, feeRate, entryIdx, sweepTx,
                   totalOutputValue, signDescs, estimator, totalFee, signIdx,
                   published, printed, resolved, lastBF, maxCsvTimeout,
                   bfVars>>

\* if publish { api.PublishTx(hex(buf)) }: the call is made, the API answers.
PublishTx ==
    /\ pc = "publish"
    /\ published' = Append(published, buf[1])
    /\ \E accepted \in BOOLEAN :
         IF accepted
           THEN pc' = "log" /\ err' = err
           ELSE Abort("ErrPublish")
    /\ UNCHANGED <<entries, sweepAddr, publish, feeRate, entryIdx, sweepTx,
                   totalOutputValue, signDescs, estimator, totalFee, signIdx,
                   buf, printed, resolved, lastBF, maxCsvTimeout, bfVars>>

\* log.Infof("Transaction: %x", buf.Bytes()); return nil
LogTransaction ==
    /\ pc = "log"
    /\ printed' = Append(printed, buf[1])
    /\ pc' = "done"
    /\ err' = "nil"
    /\ UNCHANGED <<entries, sweepAddr, publish, feeRate, entryIdx, sweepTx,
                   totalOutputValue, signDescs, estimator, totalFee, signIdx,
                   buf, published, resolved, lastBF, maxCsvTimeout, bfVars>>

\* ------------------------------------------------------- specifications

FeeRates == {2, 66}

CsvLimits == {1, MaxCsv}

\* The locals of sweepTimeLock before its loop.
SweepLocalsInit ==
    /\ pc = "entries"
    /\ entryIdx = 1
    /\ sweepTx = [TxIn |-> << >>, TxOut |-> << >>]
    /\ totalOutputValue = 0
    /\ signDescs = << >>
    /\ estimator = EmptyEstimator
    /\ totalFee = 0
    /\ signIdx = 0
    /\ buf = << >>
    /\ err = "none"
    /\ published = << >>
    /\ printed = << >>
    /\ resolved = << >>
    /\ lastBF = [entry |-> 0, ret |-> NoResult, iters |-> 0]

BFIdle ==
    /\ keyPair = 1
    /\ targetScript = P2WPKHScript
    /\ i = 0
    /\ bfPc = "idle"
    /\ bfRet = NoResult
    /\ iters = 0

Init ==
    /\ entries \in SeqsUpTo(Records, MaxEntries)
    /\ sweepAddr \in {"valid", "invalid"}
    /\ maxCsvTimeout \in CsvLimits
    /\ publish \in BOOLEAN
    /\ feeRate \in FeeRates
    /\ SweepLocalsInit
    /\ BFIdle

Next ==
    \/ ProcessEntry
    \/ AddSweepOutput
    \/ SignInput
    \/ Serialize
    \/ PublishTx
    \/ LogTransaction

Spec == Init /\ [][Next]_vars

\* bruteForceDelay on its own: every key pair, every target script of the
\* small delays (one above the small limits included), the 22 byte script,
\* and the limits 0..MaxCsv and 65535.
Targets ==
    { ScriptFor(k, c) : k \in KeyPairs, c \in 0..(MaxCsv + 1) }
        \cup {P2WPKHScript}

InitBF ==
    /\ keyPair \in KeyPairs
    /\ targetScript \in Targets
    /\ maxCsvTimeout \in (0..MaxCsv) \cup {UInt16Max}
    /\ i = 0
    /\ bfPc = "start"
    /\ bfRet = NoResult
    /\ iters = 0
    /\ entries = << >>
    /\ sweepAddr = "valid"
    /\ publish = FALSE
    /\ feeRate = 2
    /\ SweepLocalsInit

NextBF ==
    \/ BFCheckLength
    \/ BFIterate
    \/ BFExhausted

SpecBF == InitBF /\ [][NextBF]_vars

\* ------------------------------------------------------------ vocabulary

\* Candidate c reproduces the first 8 bytes of the target under the keys.
Matches(keys, target, c) ==
    target.prefix = Sha256Prefix(CommitScriptToSelf(c, keys))

\* The target of the running search is the to_local script of these keys
\* for some delay: that delay is target.full.csv ("actual_csv").
TargetIsOurs == targetScript.len = P2WSHScriptLen /\ targetScript.full.keys = keyPair

ActualCsv == targetScript.full.csv

BFReturned == bfPc = "done"

\* ---------------------------------------------------------------- claims

\* C1 as stated: whenever the limit reaches the delay the target script was
\* built with, bruteForceDelay returns exactly that delay.
C1_ReturnsActualCsv ==
    (BFReturned /\ TargetIsOurs /\ ActualCsv <= maxCsvTimeout)
        => (bfRet.err = "nil" /\ bfRet.csv = ActualCsv)

\* C1 amended: bruteForceDelay returns the smallest candidate in
\* 0..maxCsvTimeout whose script hash agrees with the target on the first 8
\* bytes, with that candidate's script and script hash, after building
\* exactly the candidates up to it; when the limit reaches the target's own
\* delay a match is returned, it is never above that delay, and it is that
\* delay unless a smaller candidate has the same 8 byte prefix.
C1_SmallestMatch ==
    /\ (BFReturned /\ bfRet.err = "nil") =>
          /\ bfRet.csv \in 0..maxCsvTimeout
          /\ Matches(keyPair, targetScript, bfRet.csv)
          /\ \A c \in 0..(bfRet.csv - 1) : ~Matches(keyPair, targetScript, c)
          /\ bfRet.script = CommitScriptToSelf(bfRet.csv, keyPair)
          /\ bfRet.scriptHash = WitnessScriptHash(bfRet.script)
          /\ iters = bfRet.csv + 1
    /\ (BFReturned /\ TargetIsOurs /\ ActualCsv <= maxCsvTimeout) =>
          /\ bfRet.err = "nil"
          /\ bfRet.csv <= ActualCsv
          /\ (\A c \in 0..(ActualCsv - 1) :
                  ~Matches(keyPair, targetScript, c)) => bfRet.csv = ActualCsv

\* C1 witness: a search that returned a delay below the one the target was
\* built with, because of an 8 byte prefix collision.
C1_Witness ==
    /\ BFReturned /\ TargetIsOurs
    /\ bfRet.err = "nil"
    /\ bfRet.csv < ActualCsv
    /\ ActualCsv <= maxCsvTimeout

\* C2: for every limit 0..65535 and every 34 byte target that no candidate
\* of 0..maxCsvTimeout matches, the search builds each candidate once (never
\* more loop bodies than candidates) and, once returned, has returned
\* NotFound after maxCsvTimeout + 1 candidates.
C2_ExhaustsOnceNotFound ==
    (/\ targetScript.len = P2WSHScriptLen
     /\ \/ iters > maxCsvTimeout + 1
        \/ BFReturned /\ ~(bfRet.err = "NotFound" /\ iters = maxCsvTimeout + 1))
        => \E c \in 0..maxCsvTimeout : Matches(keyPair, targetScript, c)

\* The loop of SpecBF and the function the callers use return the same.
BFLoopAgreesWithFunction ==
    BFReturned =>
        LET f == bruteForceDelay(keyPair, targetScript, maxCsvTimeout)
        IN  f.ret = bfRet /\ f.iters = iters

\* --- sweepTimeLock

\* The record comes through the selection and the search: it is not
\* filtered, an output is selected and bruteForceDelay finds its delay.
Resolvable(entry) ==
    /\ ~CannotSweep(entry)
    /\ FindSweepOutput(entry) # 0 - 1
    /\ LET target == entry.Outs[FindSweepOutput(entry) + 1].Script
       IN  /\ target.len = P2WSHScriptLen
           /\ \E c \in 0..maxCsvTimeout : Matches(entry.keys, target, c)

\* The positions of the resolvable records among the first n, ascending.
RECURSIVE ResolvedUpTo(_)
ResolvedUpTo(n) ==
    IF n = 0 THEN << >>
    ELSE IF Resolvable(entries[n]) THEN Append(ResolvedUpTo(n - 1), n)
    ELSE ResolvedUpTo(n - 1)

RECURSIVE SumValues(_)
SumValues(descs) ==
    IF descs = << >> THEN 0
    ELSE descs[1].Output.Value + SumValues(Tail(descs))

Signed(txin) == txin.Witness # NoWitness

FullySigned(tx) == \A k \in 1..Len(tx.TxIn) : Signed(tx.TxIn[k])

PartiallySigned(tx) ==
    /\ \E k \in 1..Len(tx.TxIn) : Signed(tx.TxIn[k])
    /\ \E k \in 1..Len(tx.TxIn) : ~Signed(tx.TxIn[k])

LoopFinished == pc # "entries" \/ entryIdx > Len(entries)

RecordErrors ==
    {"ErrParseCommitPoint", "ErrParseRevocationBasePoint", "ErrFetchPrivKey",
     "ErrParseTargetScript", "ErrParseTxHash"}

\* C3: when the loop is over and no record became an input, sweepTimeLock
\* fails with NoSweepableOutputs: no output is added, nothing is serialized,
\* printed or published.
C3_NoSweepableOutputs ==
    (entryIdx > Len(entries) /\ sweepTx.TxIn = << >>) =>
        /\ sweepTx.TxOut = << >>
        /\ buf = << >>
        /\ published = << >>
        /\ printed = << >>
        /\ pc = "done" => err = "NoSweepableOutputs"

\* C4: in every run with inputs that reaches signing, serialization or
\* publishing the sweep output's value is total claimed value minus fee and is neither
\* negative nor below the dust limit (294 sat for a P2WPKH output).
C4_OutputAboveDust ==
    LET dust == 294
    IN  (sweepTx.TxIn # << >> /\ sweepTx.TxOut # << >>) =>
            /\ sweepTx.TxOut[1].Value = totalOutputValue - totalFee
            /\ sweepTx.TxOut[1].Value >= 0
            /\ sweepTx.TxOut[1].Value >= dust

\* C5: the fee of a sweep with inputs is strictly monotonic: with the estimated weight fixed every
\* smaller rate of 1..65535 gives a strictly smaller fee than the run's
\* rate, and with the rate fixed one more input gives a strictly larger fee.
C5_FeeStrictlyMonotonic ==
    (pc = "sign" /\ sweepTx.TxIn # << >>) =>
        /\ totalFee = TotalFee(feeRate, Weight(estimator))
        /\ \A r \in 1..(feeRate - 1) :
              TotalFee(r, Weight(estimator)) < totalFee
        /\ TotalFee(feeRate,
                    Weight(AddWitnessInput(estimator,
                                           ToLocalTimeoutWitnessSize)))
              > totalFee

\* C6 as stated: no run ends with a transaction in which some but not all
\* inputs carry a witness.
C6_NeverPartiallySigned == pc = "done" => ~PartiallySigned(sweepTx)

\* C6 amended: an error of the record loop or of the sweep address aborts
\* before any input is signed; a signing failure may follow the signing of
\* earlier inputs, and then, as after a serialization failure, nothing is
\* published or printed; only a fully signed transaction is serialized; the
\* publisher is called at most once, only when publish is requested, and
\* with the serialized, fully signed transaction.
C6_NoPartialTxLeavesTheRun ==
    /\ err \in RecordErrors \cup {"ErrSweepAddr"} =>
          /\ \A k \in 1..Len(sweepTx.TxIn) : ~Signed(sweepTx.TxIn[k])
          /\ buf = << >> /\ published = << >> /\ printed = << >>
    /\ err = "ErrSign" =>
          /\ ~FullySigned(sweepTx)
          /\ buf = << >> /\ published = << >> /\ printed = << >>
    /\ err = "ErrSerialize" =>
          buf = << >> /\ published = << >> /\ printed = << >>
    /\ buf # << >> => buf[1] = sweepTx /\ FullySigned(sweepTx)
    /\ Len(published) <= 1
    /\ published # << >> => publish /\ published = buf
    /\ printed # << >> => printed = buf

\* C6 witness: a run that ended in a signing failure after an earlier input
\* had been signed.
C6_Witness ==
    pc = "done" /\ err = "ErrSign" /\ PartiallySigned(sweepTx)

\* C7: every run that signed all of its inputs and serialized the
\* transaction has printed it when it ends, whether or not publishing
\* succeeded.
C7_SignedTxPrinted ==
    (pc = "done" /\ buf # << >> /\ sweepTx.TxIn # << >>) => printed = buf

\* Output o (1-based) of the record is a 34 byte script whose delay the
\* search finds within the limit.
DelayFound(entry, o) ==
    /\ entry.Outs[o].Script.len = P2WSHScriptLen
    /\ \E c \in 0..maxCsvTimeout : Matches(entry.keys, entry.Outs[o].Script, c)

NoOutputHasBalance(entry) ==
    \A o \in 1..Len(entry.Outs) : entry.Outs[o].Value # entry.LocalBalance

\* C8: of the records processed so far, one that is not filtered and has
\* exactly one output is swept through output 0 whenever its delay is found,
\* whatever its value; one with another number of outputs is swept only
\* through an output whose value is the recorded balance; when no output has
\* that value it is skipped and the loop goes on; and a batch of a value
\* mismatching single output record followed by a record with no matching
\* output ends the loop with exactly one input, from the first record.
C8_OutputSelection ==
    /\ \A n \in 1..(entryIdx - 1) :
          LET entry == entries[n]
              hits == {k \in 1..Len(resolved) : resolved[k] = n}
          IN  ~CannotSweep(entry) =>
                /\ Len(entry.Outs) = 1 =>
                      /\ (hits # {}) <=> DelayFound(entry, 1)
                      /\ \A k \in hits : sweepTx.TxIn[k].Index = 0
                /\ Len(entry.Outs) # 1 =>
                      \A k \in hits :
                          entry.Outs[sweepTx.TxIn[k].Index + 1].Value
                              = entry.LocalBalance
                /\ (Len(entry.Outs) # 1 /\ NoOutputHasBalance(entry))
                      => hits = {}
    /\ (/\ Len(entries) = 2
        /\ LoopFinished /\ err \notin RecordErrors
        /\ ~CannotSweep(entries[1])
        /\ Len(entries[1].Outs) = 1
        /\ NoOutputHasBalance(entries[1])
        /\ DelayFound(entries[1], 1)
        /\ ~CannotSweep(entries[2])
        /\ Len(entries[2].Outs) > 1
        /\ NoOutputHasBalance(entries[2]))
         => /\ Len(sweepTx.TxIn) = 1
            /\ sweepTx.TxIn[1].Hash = entries[1].TXID
            /\ sweepTx.TxIn[1].Index = 0

\* C8 witness: the two record scenario, run to a printed transaction.
C8_Witness ==
    /\ pc = "done" /\ err = "nil"
    /\ Len(entries) = 2
    /\ Len(entries[1].Outs) = 1
    /\ NoOutputHasBalance(entries[1])
    /\ Len(entries[2].Outs) > 1
    /\ ~CannotSweep(entries[2])
    /\ NoOutputHasBalance(entries[2])
    /\ Len(printed[1].TxIn) = 1
    /\ printed[1].TxIn[1].Hash = entries[1].TXID

\* The record reaches bruteForceDelay with a target that is not 34 bytes.
BadLengthTarget(entry) ==
    /\ ~CannotSweep(entry)
    /\ FindSweepOutput(entry) # 0 - 1
    /\ ParseError(entry, FindSweepOutput(entry)) = "nil"
    /\ entry.Outs[FindSweepOutput(entry) + 1].Script.len # P2WSHScriptLen

\* C9: processing a record whose target script is not 34 bytes makes
\* bruteForceDelay fail with InvalidScriptLength without building or hashing
\* any candidate, and the record is skipped: the loop goes on and inputs,
\* descriptors, total value and weight estimate stay as they were.
C9_InvalidLengthSkipped ==
    [][(/\ pc = "entries"
        /\ entryIdx <= Len(entries)
        /\ BadLengthTarget(entries[entryIdx]))
        => /\ lastBF'.entry = entryIdx
           /\ lastBF'.ret.err = "InvalidScriptLength"
           /\ lastBF'.iters = 0
           /\ pc' = "entries" /\ entryIdx' = entryIdx + 1
           /\ UNCHANGED <<sweepTx, signDescs, totalOutputValue, estimator>>
      ]_vars

\* C9 witness: a run in which a record was swept, the next record had a
\* target of another length and was skipped, and the sweep went on to sign.
C9_Witness ==
    /\ pc = "sign"
    /\ lastBF.entry = 2
    /\ lastBF.ret.err = "InvalidScriptLength"
    /\ BadLengthTarget(entries[2])
    /\ Len(sweepTx.TxIn) = 1

\* C10: after any prefix of the records, inputs and sign descriptors are
\* those of the records resolved so far, in record order: input k spends the
\* selected output of the k-th resolved record with the recovered delay as
\* its sequence number, descriptor k carries that record's key, recovered
\* script and output value, the total is the sum of these values, the weight
\* estimate counts one time-lock witness input each, and a witness, once
\* there, is made with the descriptor of the same record.
C10_InputsPairedWithDescriptors ==
    /\ resolved = ResolvedUpTo(entryIdx - 1)
    /\ Len(sweepTx.TxIn) = Len(resolved)
    /\ Len(signDescs) = Len(resolved)
    /\ totalOutputValue = SumValues(signDescs)
    /\ estimator.inputCount = Len(resolved)
    /\ estimator.inputSize = Len(resolved) * InputSize
    /\ estimator.inputWitnessSize = Len(resolved) * ToLocalTimeoutWitnessSize
    /\ \A k \in 1..Len(resolved) :
          LET entry == entries[resolved[k]]
              txin == sweepTx.TxIn[k]
              desc == signDescs[k]
              out == entry.Outs[txin.Index + 1]
          IN  /\ txin.Hash = entry.TXID
              /\ txin.Index = FindSweepOutput(entry)
              /\ txin.Sequence \in 0..maxCsvTimeout
              /\ Matches(entry.keys, out.Script, txin.Sequence)
              /\ \A c \in 0..(txin.Sequence - 1) :
                    ~Matches(entry.keys, out.Script, c)
              /\ desc.KeyDesc = entry.ChannelPoint
              /\ desc.WitnessScript
                    = CommitScriptToSelf(txin.Sequence, entry.keys)
              /\ desc.Output.Value = out.Value
              /\ desc.Output.PkScript.prefix = out.Script.prefix
              /\ Signed(txin) =>
                    /\ txin.Witness.signedBy = entry.ChannelPoint
                    /\ txin.Witness.WitnessScript = desc.WitnessScript
                    /\ txin.Witness.InputIndex = k - 1

\* C10 witness: two different records became inputs, with a different delay
\* each, and both were signed.
C10_Witness ==
    /\ Len(sweepTx.TxIn) = 2
    /\ sweepTx.TxIn[1].Hash # sweepTx.TxIn[2].Hash
    /\ sweepTx.TxIn[1].Sequence # sweepTx.TxIn[2].Sequence
    /\ FullySigned(sweepTx)

====
